---- MODULE Spec2Model ----
(***************************************************************************)
(* Model of the submission grading back end: the submission routes        *)
(* (routes/submissionRoutes.ts, src/unnamed/part_006), the process-level   *)
(* rejection handling of the server (src/unnamed/part_005) and the quality *)
(* analysis adapter (services/openaiService.ts).                           *)
(*                                                                         *)
(* The Result Store is the variable db; the Mongoose document held by the  *)
(* closure of one POST /grade request is doc[s]. save() writes the         *)
(* modified paths of a document into the stored record with the same id,   *)
(* and fails when the store rejects the write or the record is gone.       *)
(***************************************************************************)
EXTENDS Integers, Sequences, FiniteSets, Bags, TLC

\* ------------------------------------------------------------------ bounds
\* submissions under the full router, and under the grade route alone
MaxSubs == 1
MaxPipelineSubs == 2
\* admitted PATCH and DELETE requests
MaxAdminOps == 1
\* calls of the emit functions under the socket server alone
MaxEmits == 2
\* account-creation requests past their findOne
MaxSignups == 2
\* runs of characters in a file, and patterns in fileGlobs
MaxRuns == 2
MaxGlobs == 2

\* --------------------------------------------------------------- constants
MaxConcurrentJobs == 10
\* GET /: the page when the query names none
DefaultLimit == 50
DefaultSkip == 0

None == "none"

StatusOrder == <<"uploading", "installing", "testing", "reviewing", "reporting", "completed">>
Statuses == {StatusOrder[i] : i \in 1..Len(StatusOrder)} \cup {"failed"}
Terminal == {"completed", "failed"}
Grades == {"pending", "pass", "fail"}
Fields == {"status", "grade", "scores", "report", "error"}

StatusIndex(st) == CHOOSE i \in 1..Len(StatusOrder) : StatusOrder[i] = st

\* MarkerUser collection: the accounts a bearer token may resolve to.
UserRole == [alice |-> "student", root |-> "admin"]
Users == DOMAIN UserRole
\* Authorization headers: absent, a token that does not verify, a token whose
\* user no longer exists, or a valid token of a stored user.
Tokens == {"absent", "invalid", "ghost"} \cup Users

\* Outcomes of gradingService.gradeSubmission.
GradingResults ==
  { [grade |-> "pass", scores |-> "scores_pass", report |-> "report_pass"],
    [grade |-> "fail", scores |-> "scores_fail", report |-> "report_fail"] }
PhaseErrors == {"phase_failure"}
SaveError == "save_failed"

VARIABLES
  db,        \* Result Store: sequence of stored submission records, by id
  removed,   \* ids whose record was deleted from the store
  doc,       \* the in-memory document of the POST /grade closure, by id
  task,      \* the promise returned by gradeSubmission, by id
  cont,      \* position of the then/catch continuation, by id
  calls,     \* number of gradeSubmission invocations, by id
  acked,     \* ids sent in a 202 response
  patchReq,  \* the PATCH request between its findById and its save
  patched,   \* ids whose record a PATCH has written
  adminOps,  \* number of admitted admin operations
  serverUp,  \* FALSE once the process has exited
  an,        \* one call of openaiService.analyzeCode
  io,        \* the socket.io server: connections, rooms, deliveries, emit log
  http,      \* the last response of a route that records it
  accounts,  \* MarkerUser collection: profile names, accounts created, creations in flight
  reading    \* one call of readRepoFiles of openaiService

vars == <<db, removed, doc, task, cont, calls, acked, patchReq, patched, adminOps, serverUp, an, io, http,
          accounts, reading>>

storeVars == <<db, removed, doc, task, cont, calls, acked, patchReq, patched, adminOps, serverUp>>

Ids == DOMAIN db
Live == {s \in Ids : s \notin removed}

NoPatch == [sid |-> 0, vals |-> [status |-> None, grade |-> None, error |-> None], dirty |-> {}]

\* ----------------------------------------- openaiService: JavaScript values
Undefined == [t |-> "undefined", n |-> 0]
Null == [t |-> "null", n |-> 0]
Num(k) == [t |-> "number", n |-> k]
\* strings, by their index in StringTable
Str(k) == [t |-> "string", n |-> k]
StringTable ==
  <<"high", "## Review", "No analysis provided", "AI analysis failed: <message>">>
NoAnalysisProvided == Str(3)
AnalysisFailed == Str(4)

Truthy(v) ==
  CASE v.t = "number" -> v.n # 0
    [] v.t = "string" -> TRUE
    [] OTHER -> FALSE

AnalysisKeys == {"score", "codeQualityScore", "codeSmellScore", "report"}
EmptyObject == [k \in AnalysisKeys |-> Undefined]


\* The text of a completion, as a sequence of tokens: braces, other text,
\* JSON literals and "key": value members.
LB == [k |-> "{", v |-> Undefined]
RB == [k |-> "}", v |-> Undefined]
Txt == [k |-> "text", v |-> Undefined]
Literal(v) == [k |-> "literal", v |-> v]
Member(key, v) == [k |-> key, v |-> v]

Max(S) == CHOOSE x \in S : \A y \in S : y <= x
Min(S) == CHOOSE x \in S : \A y \in S : x <= y

\* JSON.parse: an object text is a brace pair around members; a literal alone
\* is a JSON value too; anything else is a SyntaxError.
IsObjectText(seq) ==
  /\ Len(seq) >= 2
  /\ seq[1] = LB
  /\ seq[Len(seq)] = RB
  /\ \A i \in 2..(Len(seq) - 1) : seq[i].k \in AnalysisKeys \cup {"testScore"}

ObjectOf(seq) ==
  [key \in AnalysisKeys |->
     LET at == {i \in 2..(Len(seq) - 1) : seq[i].k = key}
     IN IF at = {} THEN Undefined ELSE seq[Max(at)].v]

JsonParse(seq) ==
  IF IsObjectText(seq)
  THEN [ok |-> TRUE, val |-> [t |-> "object", n |-> 0], obj |-> ObjectOf(seq)]
  ELSE IF Len(seq) = 1 /\ seq[1].k = "literal"
  THEN [ok |-> TRUE, val |-> seq[1].v, obj |-> EmptyObject]
  ELSE [ok |-> FALSE, val |-> Undefined, obj |-> EmptyObject]

\* content.match(/\{[\s\S]*\}/): from the first "{" that has a "}" after it
\* to the last "}" of the text.
BraceMatch(seq) ==
  LET opens == {i \in 1..Len(seq) : seq[i] = LB /\ \E j \in (i + 1)..Len(seq) : seq[j] = RB}
  IN IF opens = {} THEN <<>>
     ELSE SubSeq(seq, Min(opens), Max({j \in 1..Len(seq) : seq[j] = RB}))

safeJsonParse(content) ==
  IF JsonParse(content).ok THEN JsonParse(content)
  ELSE IF BraceMatch(content) # <<>> /\ JsonParse(BraceMatch(content)).ok
  THEN JsonParse(BraceMatch(content))
  ELSE [ok |-> TRUE, val |-> [t |-> "object", n |-> 0], obj |-> EmptyObject]

\* analysis.<key>: a TypeError on null and undefined, undefined on a primitive
Throws(analysis) == analysis.val.t \in {"null", "undefined"}
Get(analysis, key) == IF analysis.val.t = "object" THEN analysis.obj[key] ELSE Undefined

\* a || b
OrElse(a, b) == IF Truthy(a) THEN a ELSE b

NoAnalysis == [ok |-> FALSE, val |-> Undefined, obj |-> EmptyObject]

NoResult ==
  [kind |-> "none", score |-> Undefined, codeQualityScore |-> Undefined,
   codeSmellScore |-> Undefined, report |-> Undefined, breakdown |-> <<>>]

Breakdown(quality, smell) ==
  << [category |-> "Code Quality", score |-> quality, maxScore |-> 100],
     [category |-> "Code Smell", score |-> smell, maxScore |-> 100] >>

\* the value analyzeCode returns for a parsed completion
AnalysisResult(projectType, analysis) ==
  IF projectType = "c"
  THEN LET smell == Get(analysis, "codeSmellScore")
           quality == Get(analysis, "codeQualityScore")
           zero == smell.t # "number" \/ quality.t # "number"
           s == IF zero THEN Num(0) ELSE smell
           q == IF zero THEN Num(0) ELSE quality
       IN [NoResult EXCEPT !.kind = "returned", !.codeSmellScore = s, !.codeQualityScore = q,
                           !.report = OrElse(Get(analysis, "report"), NoAnalysisProvided),
                           !.breakdown = Breakdown(q, s)]
  ELSE [NoResult EXCEPT !.kind = "returned",
                        !.score = OrElse(Get(analysis, "score"), Num(0)),
                        !.report = OrElse(Get(analysis, "report"), NoAnalysisProvided)]

\* the value the catch block of analyzeCode returns
DegradedResult(projectType) ==
  IF projectType = "c"
  THEN [NoResult EXCEPT !.kind = "returned", !.codeSmellScore = Num(0),
                        !.codeQualityScore = Num(0), !.report = AnalysisFailed,
                        !.breakdown = Breakdown(Num(0), Num(0))]
  ELSE [NoResult EXCEPT !.kind = "returned", !.score = Num(0), !.report = AnalysisFailed]

RejectedResult == [NoResult EXCEPT !.kind = "rejected"]

AnIdle ==
  [pc |-> "idle", projectType |-> None, fileGlobs |-> None, testResult |-> None,
   apiCalls |-> 0, service |-> None, content |-> <<>>, analysis |-> NoAnalysis,
   result |-> NoResult]

\* ------------------------------------------------------ socket.io server
\* socket connections, by socket.id
Conns == {"c1", "c2"}
\* the submission ids a client names in submission:start
RoomIds == {1, 2}

\* `submission:${id}`
Room(x) == <<"submission", x>>

NoSubmission == [id |-> 0, status |-> None, grade |-> None, scores |-> None, report |-> None]

IoInit ==
  [conn |-> [c \in Conns |-> "new"],
   rooms |-> [c \in Conns |-> {}],
   received |-> [c \in Conns |-> {}],
   log |-> EmptyBag]

\* the query of a read request: the id of /:id/report.md, the filters and the
\* page of the listing
\* a numeric query parameter the request does not carry
Unset == -1

NoQuery == [id |-> 0, userId |-> None, status |-> None, skip |-> Unset, limit |-> Unset]

\* caller is the Authorization header of the request; again tells that the
\* response before answered the same request with 200
NoResponse ==
  [route |-> None, caller |-> "absent", query |-> NoQuery, code |-> 0, body |-> None,
   items |-> <<>>, again |-> FALSE]

\* ------------------------------------------------ openaiService.readRepoFiles
NotReading ==
  [pc |-> "idle", repo |-> <<>>, fileGlobs |-> <<>>, globs |-> <<>>, matched |-> <<>>, out |-> <<>>]

\* if (content.length > 10000) content = content.slice(0, 10000) + marker
Cap == 10000

\* The content of a file, as a sequence of runs [c, n] of n characters of one
\* class: text, line feed (0x0A), or another control character (0x00-0x09,
\* 0x0B-0x1F, 0x7F).
CharClasses == {"text", "lf", "ctl"}
RunLengths == {1, Cap, Cap + 1}
Runs == [c : CharClasses, n : RunLengths]

RECURSIVE SeqsUpTo(_, _)
SeqsUpTo(S, n) ==
  IF n = 0 THEN {<<>>}
  ELSE SeqsUpTo(S, n - 1) \cup {Append(x, e) : x \in SeqsUpTo(S, n - 1), e \in S}

\* content.length
RECURSIVE Length(_)
Length(content) == IF content = <<>> THEN 0 ELSE Head(content).n + Length(Tail(content))

\* content.slice(0, k)
RECURSIVE Slice(_, _)
Slice(content, k) ==
  IF content = <<>> \/ k = 0 THEN <<>>
  ELSE IF Head(content).n <= k
  THEN <<Head(content)>> \o Slice(Tail(content), k - Head(content).n)
  ELSE <<[Head(content) EXCEPT !.n = k]>>

IsControl(r) == r.c = "ctl"
NotControl(r) == ~IsControl(r)

\* code.replace(/[\x00-\x09\x0B-\x1F\x7F]/g, '')
sanitizeCode(code) == SelectSeq(code, NotControl)

\* an inclusion that cuts the file and does not say so
Included_NoMarker(content) ==
  LET clean == sanitizeCode(content)
  IN [text |-> Slice(clean, Cap), truncated |-> FALSE]

\* what readRepoFiles appends for one file: the text, and whether the marker
\* '\n// ...truncated...' follows it
Included(content) ==
  LET clean == sanitizeCode(content)
  IN IF Length(clean) > Cap
     THEN [text |-> Slice(clean, Cap), truncated |-> TRUE]
     ELSE [text |-> clean, truncated |-> FALSE]

\* the files of the repository, and the patterns of fileGlobs with the files
\* glob returns for each
RepoFiles == <<"README.md", "src/a.js">>
Patterns == {"README.md", "src/**/*.js", "**/*"}
GlobMatches(pattern) ==
  CASE pattern = "README.md" -> <<"README.md">>
    [] pattern = "src/**/*.js" -> <<"src/a.js">>
    [] OTHER -> RepoFiles

\* fs.readFile rejects
Unreadable == <<[c |-> "unreadable", n |-> 0]>>

InSeq(x, seq) == \E i \in 1..Len(seq) : seq[i] = x

\* matches.forEach(f => matchedFiles.add(f)): a Set keeps the first insertion
RECURSIVE AddAll(_, _)
AddAll(set, matches) ==
  IF matches = <<>> THEN set
  ELSE AddAll(IF InSeq(Head(matches), set) THEN set ELSE Append(set, Head(matches)),
              Tail(matches))

\* for (const pattern of fileGlobs): one pattern
ReadGlob ==
  /\ reading.pc = "glob"
  /\ reading' = IF reading.globs = <<>>
                THEN [reading EXCEPT !.pc = "read"]
                ELSE [reading EXCEPT !.globs = Tail(@),
                                     !.matched = AddAll(@, GlobMatches(Head(reading.globs)))]
  /\ UNCHANGED <<storeVars, an, accounts, io, http>>

\* for (const file of matchedFiles): one file; a failed read is skipped
ReadFile ==
  /\ reading.pc = "read"
  /\ reading' =
       IF reading.matched = <<>>
       THEN [reading EXCEPT !.pc = "done"]
       ELSE LET file == Head(reading.matched)
                content == reading.repo[file]
            IN [reading EXCEPT
                  !.matched = Tail(@),
                  !.out = IF content = Unreadable
                          THEN @
                          ELSE Append(@, [file |-> file] @@ Included(content))]
  /\ UNCHANGED <<storeVars, an, accounts, io, http>>

\* ------------------------------------------------------ MarkerUser collection
\* profile.name of a user: as stored at first, and as a PATCH body carries it
OldName == "old name"
NewName == "new name"
\* the email addresses of account-creation requests
Emails == {"carol@example.org", "dave@example.org"}

\* unique tells whether the collection rejects a second document with an
\* email it holds (MongoServerError 11000)
AccountsInit ==
  [unique |-> FALSE,
   name |-> [u \in Users |-> OldName],
   created |-> EmptyBag,
   pending |-> EmptyBag]

Init ==
  /\ an = AnIdle
  /\ db = <<>>
  /\ removed = {}
  /\ doc = <<>>
  /\ task = <<>>
  /\ cont = <<>>
  /\ calls = <<>>
  /\ acked = {}
  /\ patchReq = NoPatch
  /\ patched = {}
  /\ adminOps = 0
  /\ serverUp = TRUE
  /\ io = IoInit
  /\ http = NoResponse
  /\ accounts = AccountsInit
  /\ reading = NotReading

\* ------------------------------------------------------------- responses
Response(route, query, r) ==
  [route |-> route, caller |-> "absent", query |-> query, code |-> r.code, body |-> r.body,
   items |-> r.items,
   again |-> http.route = route /\ http.query = query /\ http.code = 200]

\* the response to a request that carries the Authorization header tok
ResponseTo(tok, route, query, r) == [Response(route, query, r) EXCEPT !.caller = tok]

Answer(code, body) == [code |-> code, body |-> body, items |-> <<>>]

\* ------------------------------------------------------------ middleware
\* getUserFromToken: None when the request is answered 401, else the user.
\* a middleware that trusts a verified token without looking the user up
AuthUser_NoLookup(tok) == IF tok \in Users \cup {"ghost"} THEN tok ELSE None

AuthUser(tok) == IF tok \in Users THEN tok ELSE None

\* a requireAdmin that lets every authenticated user pass
IsAdmin_AnyUser(u) == u \in Users

\* requireAdmin
IsAdmin(u) == u \in Users /\ UserRole[u] = "admin"

\* getUserFromToken, requireAdmin: the status the middleware answers with, 0
\* when it calls next()
AdminGate(tok) ==
  IF AuthUser(tok) = None THEN 401
  ELSE IF ~IsAdmin(AuthUser(tok)) THEN 403
  ELSE 0

\* ----------------------------------------------------------------- store
\* Document.save(): the stored record after writing the modified paths.
Written(rec, d) == [f \in DOMAIN rec |-> IF f \in d.dirty THEN d[f] ELSE rec[f]]

\* assignment to a path of a document marks it modified when the value changes
SetPath(d, f, v) ==
  IF d[f] = v THEN d ELSE [d EXCEPT ![f] = v, !.dirty = @ \cup {f}]

Saved(d) == [d EXCEPT !.dirty = {}]

\* a record that intake creates already in the first phase of the run
NewRecord_Cloning(u) ==
  [userId |-> u, status |-> "cloning", grade |-> "pending",
   scores |-> None, report |-> None, error |-> None]

NewRecord(u) ==
  [userId |-> u, status |-> "uploading", grade |-> "pending",
   scores |-> None, report |-> None, error |-> None]

NewDoc ==
  [status |-> "uploading", grade |-> "pending",
   scores |-> None, report |-> None, error |-> None, dirty |-> {}]

\* ------------------------------------------------------------ POST /grade
\* what the route sends: ok tells whether the store takes the initial save
GradeResponse(tok, ok) ==
  IF AuthUser(tok) = None
  THEN \* getUserFromToken: 'No token', 'Invalid token', 'User not found'
       Answer(401, "Unauthorized")
  ELSE IF ~ok
  THEN \* next(error) -> errorHandler
       Answer(500, "Internal Server Error")
  ELSE Answer(202, "submissionId")

\* the route's effect on the store and on the promises
PostGradeStore(tok, ok, limit) ==
  /\ serverUp
  /\ Len(db) < limit
  /\ UNCHANGED <<removed, patchReq, patched, adminOps, serverUp>>
  /\ IF AuthUser(tok) = None
     THEN \* 401
          UNCHANGED <<db, doc, task, cont, calls, acked>>
     ELSE IF ~ok
     THEN \* next(error): the initial save failed
          UNCHANGED <<db, doc, task, cont, calls, acked>>
     ELSE LET s == Len(db) + 1 IN
          /\ db' = Append(db, NewRecord(AuthUser(tok)))
          /\ doc' = Append(doc, NewDoc)
          /\ task' = Append(task, [pc |-> "running", result |-> None, msg |-> None])
          /\ cont' = Append(cont, "waiting")
          /\ calls' = Append(calls, 1)
          /\ acked' = acked \cup {s}

\* an intake that answers only from the promise continuation
PostGrade_AckLater(tok, ok, limit) ==
  /\ serverUp
  /\ UNCHANGED <<an, accounts, reading, io, http>>
  /\ Len(db) < limit
  /\ UNCHANGED <<removed, patchReq, patched, adminOps, serverUp, acked>>
  /\ IF AuthUser(tok) = None \/ ~ok
     THEN UNCHANGED <<db, doc, task, cont, calls>>
     ELSE /\ db' = Append(db, NewRecord(AuthUser(tok)))
          /\ doc' = Append(doc, NewDoc)
          /\ task' = Append(task, [pc |-> "running", result |-> None, msg |-> None])
          /\ cont' = Append(cont, "waiting")
          /\ calls' = Append(calls, 1)

PostGrade(tok, ok, limit) ==
  /\ PostGradeStore(tok, ok, limit)
  /\ UNCHANGED <<an, accounts, reading, io, http>>

\* the request with its response
GradeRequest(tok, ok, limit) ==
  /\ PostGradeStore(tok, ok, limit)
  /\ UNCHANGED <<an, accounts, reading, io>>
  /\ http' = ResponseTo(tok, "grade", NoQuery, GradeResponse(tok, ok))

\* ------------------------------------------- gradingService.gradeSubmission
\* One phase boundary of the running pipeline: the document's status moves to
\* the next phase and is saved. A rejected save rejects the pipeline.
PhaseAdvance(s, ok) ==
  /\ serverUp
  /\ task[s].pc = "running"
  /\ StatusIndex(doc[s].status) < StatusIndex("reporting")
  /\ LET d == SetPath(doc[s], "status", StatusOrder[StatusIndex(doc[s].status) + 1]) IN
     IF ok /\ s \in Live
     THEN /\ db' = [db EXCEPT ![s] = Written(@, d)]
          /\ doc' = [doc EXCEPT ![s] = Saved(d)]
          /\ UNCHANGED task
     ELSE /\ doc' = [doc EXCEPT ![s] = d]
          /\ task' = [task EXCEPT ![s] = [pc |-> "rejected", result |-> None, msg |-> SaveError]]
          /\ UNCHANGED db
  /\ UNCHANGED <<removed, cont, calls, acked, patchReq, patched, adminOps, serverUp>>

\* A fatal phase failure (acquisition, installation, test execution): the
\* pipeline rejects with the captured message.
PhaseFail(s, e) ==
  /\ serverUp
  /\ task[s].pc = "running"
  /\ task' = [task EXCEPT ![s] = [pc |-> "rejected", result |-> None, msg |-> e]]
  /\ UNCHANGED <<db, removed, doc, cont, calls, acked, patchReq, patched, adminOps, serverUp>>

\* The reporting phase ends: the pipeline resolves with grade, scores, report.
PipelineResolve(s, r) ==
  /\ serverUp
  /\ task[s].pc = "running"
  /\ doc[s].status = "reporting"
  /\ task' = [task EXCEPT ![s] = [pc |-> "resolved", result |-> r, msg |-> None]]
  /\ UNCHANGED <<db, removed, doc, cont, calls, acked, patchReq, patched, adminOps, serverUp>>

\* ------------------------------------------------------ socket.io server
\* io.on('connection')
Connection(c) ==
  /\ serverUp
  /\ io.conn[c] = "new"
  /\ io' = [io EXCEPT !.conn[c] = "open"]
  /\ UNCHANGED <<storeVars, an, accounts, reading, http>>

\* socket.on('submission:start'): socket.join(`submission:${data.submissionId}`)
SubmissionStart(c, x) ==
  /\ serverUp
  /\ io.conn[c] = "open"
  /\ io' = [io EXCEPT !.rooms[c] = @ \cup {Room(x)}]
  /\ UNCHANGED <<storeVars, an, accounts, reading, http>>

\* socket.on('disconnect'): the socket has left its rooms
Disconnect(c) ==
  /\ serverUp
  /\ io.conn[c] = "open"
  /\ io' = [io EXCEPT !.conn[c] = "closed", !.rooms[c] = {}]
  /\ UNCHANGED <<storeVars, an, accounts, reading, http>>

ProgressEvent(s, st) ==
  [type |-> "progress", id |-> s, status |-> st, error |-> None, submission |-> NoSubmission]

CompleteEvent(s, r) ==
  [type |-> "complete", id |-> 0, status |-> None, error |-> None,
   submission |-> [id |-> s, status |-> "completed", grade |-> r.grade,
                   scores |-> r.scores, report |-> r.report]]

ErrorEvent(s, e, phase) ==
  [type |-> "error", id |-> s, status |-> phase, error |-> e, submission |-> NoSubmission]

\* the submission an event is about
EventSubject(e) == IF e.type = "complete" THEN e.submission.id ELSE e.id

\* io.emit(...): every open connection
Recipients_Broadcast(room) == {c \in Conns : io.conn[c] = "open"}

\* io.to(room): the open connections that have joined the room
Recipients(room) == {c \in Conns : io.conn[c] = "open" /\ room \in io.rooms[c]}

\* io.to(room).emit(name, event), and the logger line after it
EmitTo(room, e) ==
  [io EXCEPT !.received = [c \in Conns |-> IF c \in Recipients(room) THEN @[c] \cup {e} ELSE @[c]],
             !.log = @ (+) SetToBag({e})]

emitSubmissionProgress(e) == EmitTo(Room(e.id), e)
emitSubmissionComplete(e) == EmitTo(Room(e.submission.id), e)
emitSubmissionError(e) == EmitTo(Room(e.id), e)

\* ------------------------------- gradingService: the pipeline and its events
\* a publication that raises reaches no connection, and the pipeline goes on
Publish(pub, emitted) == IF pub THEN emitted ELSE io

\* a pipeline that rejects when a publication raises
PhaseAdvanceStep_PublishRejects(s, ok, pub) ==
  /\ UNCHANGED <<an, accounts, reading, http>>
  /\ IF pub
     THEN /\ PhaseAdvance(s, ok)
          /\ io' = IF ok /\ s \in Live
                   THEN emitSubmissionProgress(
                          ProgressEvent(s, StatusOrder[StatusIndex(doc[s].status) + 1]))
                   ELSE emitSubmissionError(ErrorEvent(s, SaveError, doc[s].status))
     ELSE /\ PhaseFail(s, "publish_failed")
          /\ UNCHANGED io

\* a phase boundary: the save, then the progress event of the new phase (the
\* error event when the save was rejected)
PhaseAdvanceStep(s, ok, pub) ==
  /\ PhaseAdvance(s, ok)
  /\ UNCHANGED <<an, accounts, reading, http>>
  /\ io' = IF ok /\ s \in Live
           THEN Publish(pub, emitSubmissionProgress(
                               ProgressEvent(s, StatusOrder[StatusIndex(doc[s].status) + 1])))
           ELSE Publish(pub, emitSubmissionError(ErrorEvent(s, SaveError, doc[s].status)))

\* terminal failure: the error event with the failing phase and the message
PhaseFailStep(s, e, pub) ==
  /\ PhaseFail(s, e)
  /\ UNCHANGED <<an, accounts, reading, http>>
  /\ io' = Publish(pub, emitSubmissionError(ErrorEvent(s, e, doc[s].status)))

\* terminal success: the completion event with the final submission
PipelineResolveStep(s, r, pub) ==
  /\ PipelineResolve(s, r)
  /\ UNCHANGED <<an, accounts, reading, http>>
  /\ io' = Publish(pub, emitSubmissionComplete(CompleteEvent(s, r)))

\* ------------------------------------ POST /grade: the promise continuation
\* .then(async (result) => { ...; await submission.save(); })
\* a then handler that stores the result and leaves the status as it is
ThenDoc_NoStatus(d, r) ==
  SetPath(SetPath(SetPath(d, "grade", r.grade), "scores", r.scores), "report", r.report)

\* a then handler that stores the grade and forgets scores and report
ThenDoc_GradeOnly(d, r) ==
  SetPath(SetPath(d, "status", "completed"), "grade", r.grade)

ThenDoc(d, r) ==
  SetPath(SetPath(SetPath(SetPath(d, "status", "completed"),
                          "grade", r.grade), "scores", r.scores), "report", r.report)

ThenContinuation(s, ok) ==
  /\ serverUp
  /\ UNCHANGED <<an, accounts, reading, io, http>>
  /\ task[s].pc = "resolved"
  /\ cont[s] = "waiting"
  /\ LET d == ThenDoc(doc[s], task[s].result) IN
     IF ok /\ s \in Live
     THEN /\ db' = [db EXCEPT ![s] = Written(@, d)]
          /\ doc' = [doc EXCEPT ![s] = Saved(d)]
          /\ cont' = [cont EXCEPT ![s] = "done"]
     ELSE /\ doc' = [doc EXCEPT ![s] = d]
          /\ cont' = [cont EXCEPT ![s] = "thenRejected"]
          /\ UNCHANGED db
  /\ UNCHANGED <<removed, task, calls, acked, patchReq, patched, adminOps, serverUp>>

\* .catch(async (error) => { ...; await submission.save(); }), chained after
\* .then: it receives the rejection of the pipeline or of the then handler.
CatchMessage_Generic(s) == "Grading failed"

CatchMessage(s) == IF task[s].pc = "rejected" THEN task[s].msg ELSE SaveError

\* a continuation that puts the submission back at the start for another run
CatchDoc_Requeue(d, m) == SetPath(SetPath(d, "status", "uploading"), "error", m)

\* a continuation that records the message and leaves the status as it is
CatchDoc_ErrorOnly(d, m) == SetPath(d, "error", m)

CatchDoc(d, m) == SetPath(SetPath(d, "status", "failed"), "error", m)

CatchContinuation(s, ok) ==
  /\ serverUp
  /\ UNCHANGED <<an, accounts, reading, io, http>>
  /\ \/ task[s].pc = "rejected" /\ cont[s] = "waiting"
     \/ cont[s] = "thenRejected"
  /\ LET d == CatchDoc(doc[s], CatchMessage(s)) IN
     IF ok /\ s \in Live
     THEN /\ db' = [db EXCEPT ![s] = Written(@, d)]
          /\ doc' = [doc EXCEPT ![s] = Saved(d)]
          /\ cont' = [cont EXCEPT ![s] = "done"]
     ELSE /\ doc' = [doc EXCEPT ![s] = d]
          /\ cont' = [cont EXCEPT ![s] = "unhandled"]
          /\ UNCHANGED db
  /\ UNCHANGED <<removed, task, calls, acked, patchReq, patched, adminOps, serverUp>>

\* process.on('unhandledRejection') -> gracefulShutdown -> process.exit(0)
UnhandledRejection ==
  /\ serverUp
  /\ UNCHANGED <<an, accounts, reading, io, http>>
  /\ \E s \in Ids : cont[s] = "unhandled"
  /\ serverUp' = FALSE
  /\ UNCHANGED <<db, removed, doc, task, cont, calls, acked, patchReq, patched, adminOps>>

\* -------------------------------------------------------------- PATCH /:id
\* request bodies {status?, grade?, error?} an admin sends
PatchBodies ==
  { [status |-> "testing", grade |-> None, error |-> None],
    [status |-> None, grade |-> "pass", error |-> None],
    [status |-> None, grade |-> None, error |-> "manual"] }

\* getUserFromToken, requireAdmin, findById and the three assignments
PatchLoadStore(tok, s, body) ==
  /\ serverUp
  /\ patchReq = NoPatch
  /\ UNCHANGED <<db, removed, doc, task, cont, calls, acked, patched, serverUp>>
  /\ IF AuthUser(tok) = None
     THEN UNCHANGED <<patchReq, adminOps>>   \* 401
     ELSE IF ~IsAdmin(AuthUser(tok))
     THEN UNCHANGED <<patchReq, adminOps>>   \* 403
     ELSE IF s \notin Live
     THEN UNCHANGED <<patchReq, adminOps>>   \* 404
     ELSE /\ adminOps < MaxAdminOps
          /\ adminOps' = adminOps + 1
          /\ patchReq' =
               [sid |-> s,
                vals |-> body,
                dirty |-> {f \in DOMAIN body : body[f] # None /\ body[f] # db[s][f]}]

PatchLoad(tok, s, body) ==
  /\ PatchLoadStore(tok, s, body)
  /\ UNCHANGED <<an, accounts, reading, io, http>>

\* what the route has sent when the handler awaits the save: code 0 when
\* nothing yet
PatchLoadResponse(tok, s) ==
  IF AdminGate(tok) = 401 THEN Answer(401, "Unauthorized")
  ELSE IF AdminGate(tok) = 403 THEN Answer(403, "Admin access required")
  ELSE IF s \notin Live THEN Answer(404, "Submission not found")
  ELSE Answer(0, None)

\* the request with its response
PatchRequest(tok, s, body) ==
  /\ PatchLoadStore(tok, s, body)
  /\ UNCHANGED <<an, accounts, reading, io>>
  /\ http' = ResponseTo(tok, "patch", [NoQuery EXCEPT !.id = s], PatchLoadResponse(tok, s))

\* await submission.save(); res.json(submission) or the 500 of the catch
PatchSave(ok) ==
  /\ serverUp
  /\ UNCHANGED <<an, accounts, reading, io, http>>
  /\ patchReq # NoPatch
  /\ LET s == patchReq.sid IN
     IF ok /\ s \in Live
     THEN /\ db' = [db EXCEPT ![s] =
                      [f \in DOMAIN @ |-> IF f \in patchReq.dirty THEN patchReq.vals[f] ELSE @[f]]]
          /\ patched' = IF patchReq.dirty # {} THEN patched \cup {s} ELSE patched
     ELSE \* 500
          UNCHANGED <<db, patched>>
  /\ patchReq' = NoPatch
  /\ UNCHANGED <<removed, doc, task, cont, calls, acked, adminOps, serverUp>>

\* ------------------------------------------------------------- DELETE /:id
DeleteStore(tok, s, ok) ==
  /\ serverUp
  /\ UNCHANGED <<db, doc, task, cont, calls, acked, patchReq, patched, serverUp>>
  /\ IF AuthUser(tok) = None
     THEN UNCHANGED <<removed, adminOps>>   \* 401
     ELSE IF ~IsAdmin(AuthUser(tok))
     THEN UNCHANGED <<removed, adminOps>>   \* 403
     ELSE IF ~ok
     THEN UNCHANGED <<removed, adminOps>>   \* 500
     ELSE IF s \notin Live
     THEN UNCHANGED <<removed, adminOps>>   \* 404
     ELSE /\ adminOps < MaxAdminOps
          /\ adminOps' = adminOps + 1
          /\ removed' = removed \cup {s}

DeleteSubmission(tok, s, ok) ==
  /\ DeleteStore(tok, s, ok)
  /\ UNCHANGED <<an, accounts, reading, io, http>>

DeleteResponse(tok, s, ok) ==
  IF AdminGate(tok) = 401 THEN Answer(401, "Unauthorized")
  ELSE IF AdminGate(tok) = 403 THEN Answer(403, "Admin access required")
  ELSE IF ~ok THEN Answer(500, "Failed to delete submission")
  ELSE IF s \notin Live THEN Answer(404, "Submission not found")
  ELSE Answer(200, "Submission deleted")

\* the request with its response
DeleteRequest(tok, s, ok) ==
  /\ DeleteStore(tok, s, ok)
  /\ UNCHANGED <<an, accounts, reading, io>>
  /\ http' = ResponseTo(tok, "delete", [NoQuery EXCEPT !.id = s], DeleteResponse(tok, s, ok))

\* ------------------------------------------------------ GET /:id/report.md
\* a request id that is no ObjectId: findById raises a CastError
MalformedId == 0

\* a handler that looks for the submission only
ReportResponse_AnyRecord(rid, ok) ==
  IF rid = MalformedId THEN Answer(400, "Invalid ID format")
  ELSE IF ~ok THEN Answer(500, "Internal Server Error")
  ELSE IF rid \notin Live THEN Answer(404, "Report not found")
  ELSE Answer(200, db[rid].report)

\* what the handler sends: ok tells whether the store answers the findById
ReportResponse(rid, ok) ==
  IF rid = MalformedId
  THEN \* CastError -> next(error) -> errorHandler
       Answer(400, "Invalid ID format")
  ELSE IF ~ok
  THEN \* next(error) -> errorHandler
       Answer(500, "Internal Server Error")
  ELSE IF rid \notin Live \/ db[rid].report = None
  THEN Answer(404, "Report not found")
  ELSE Answer(200, db[rid].report)

\* a download that hands the report out once
GetReport_Once(rid, ok) ==
  /\ serverUp
  /\ UNCHANGED <<removed, doc, task, cont, calls, acked, patchReq, patched, adminOps, serverUp,
                 an, accounts, reading, io>>
  /\ http' = Response("report", [NoQuery EXCEPT !.id = rid], ReportResponse(rid, ok))
  /\ db' = IF ReportResponse(rid, ok).code = 200
           THEN [db EXCEPT ![rid].report = None]
           ELSE db

GetReport(rid, ok) ==
  /\ serverUp
  /\ UNCHANGED <<storeVars, an, accounts, reading, io>>
  /\ http' = Response("report", [NoQuery EXCEPT !.id = rid], ReportResponse(rid, ok))

\* the route under a request that carries the Authorization header tok: no
\* middleware reads it
ReportRead(tok, rid, ok) ==
  /\ serverUp
  /\ UNCHANGED <<storeVars, an, accounts, reading, io>>
  /\ http' = ResponseTo(tok, "report", [NoQuery EXCEPT !.id = rid], ReportResponse(rid, ok))

\* ---------------------------------------------------------------- GET /:id
\* res.json(submission): the stored record
SubmissionResponse(rid, ok) ==
  IF rid = MalformedId
  THEN \* CastError -> next(error) -> errorHandler
       Answer(400, "Invalid ID format")
  ELSE IF ~ok
  THEN \* next(error) -> errorHandler
       Answer(500, "Internal Server Error")
  ELSE IF rid \notin Live
  THEN Answer(404, "Submission not found")
  ELSE [code |-> 200, body |-> None, items |-> <<db[rid]>>]

SubmissionRead(tok, rid, ok) ==
  /\ serverUp
  /\ UNCHANGED <<storeVars, an, accounts, reading, io>>
  /\ http' = ResponseTo(tok, "get", [NoQuery EXCEPT !.id = rid], SubmissionResponse(rid, ok))

\* ------------------------------------------------------------------ GET /
\* Submission.find(query): userId and status filter when the query has them
Matching(q) ==
  {s \in Live : /\ q.userId # None => db[s].userId = q.userId
                /\ q.status # None => db[s].status = q.status}

\* .sort({ createdAt: -1 }): ids are given in the order of creation
RECURSIVE NewestFirst(_)
NewestFirst(S) == IF S = {} THEN <<>> ELSE <<Max(S)>> \o NewestFirst(S \ {Max(S)})

\* .skip(Number(skip))
Skip(seq, k) == SubSeq(seq, k + 1, Len(seq))

\* .limit(Number(limit)): the store reads a limit of 0 as no limit
Limit(seq, n) == IF n = 0 THEN seq ELSE SubSeq(seq, 1, Min({n, Len(seq)}))

\* userMap[s.userId] || s.userId
UserEmail(u) == IF u \in Users THEN <<u, "email">> ELSE <<u, "id">>

\* { ...s.toObject(), userEmail }: of the record, the fields the query is about
Listed(s) ==
  [id |-> s, userId |-> db[s].userId, status |-> db[s].status,
   userEmail |-> UserEmail(db[s].userId)]

ListResponse(q, ok) ==
  IF ~ok
  THEN \* next(error) -> errorHandler
       Answer(500, "Internal Server Error")
  ELSE LET skip == IF q.skip = Unset THEN DefaultSkip ELSE q.skip
           limit == IF q.limit = Unset THEN DefaultLimit ELSE q.limit
           page == Limit(Skip(NewestFirst(Matching(q)), skip), limit)
       IN [code |-> 200, body |-> None, items |-> [i \in 1..Len(page) |-> Listed(page[i])]]

ListSubmissions(q, ok) ==
  /\ serverUp
  /\ UNCHANGED <<storeVars, an, accounts, reading, io>>
  /\ http' = Response("list", q, ListResponse(q, ok))

ListRead(tok, q, ok) ==
  /\ serverUp
  /\ UNCHANGED <<storeVars, an, accounts, reading, io>>
  /\ http' = ResponseTo(tok, "list", q, ListResponse(q, ok))

\* the queries of the listing: ?userId=&status=&skip=&limit=
ListQueries ==
  [id : {0}, userId : {None} \cup Users, status : {None, "failed"},
   skip : {Unset, 1}, limit : {Unset, 0, 1}]

\* ------------------------------------------------------- PATCH /api/users/*
\* the PATCH routes of userRouter, in the order of their registration
UserPatchPatterns == <<":id", "me">>

\* Express hands the request to the first registered route whose pattern
\* matches the path; ':id' matches every single segment
UserPatchRoute(path) ==
  UserPatchPatterns[Min({i \in 1..Len(UserPatchPatterns) :
                           UserPatchPatterns[i] = ":id" \/ UserPatchPatterns[i] = path})]

\* the paths of PATCH requests: /me and /<id of a stored user>
UserPaths == {"me"} \cup Users

\* the user whose profile.name the request writes, None when it writes none
UserPatchTarget(tok, path) ==
  IF UserPatchRoute(path) = ":id"
  THEN IF AdminGate(tok) = 0 /\ path \in Users THEN path ELSE None
  ELSE AuthUser(tok)

UserPatchResponse(tok, path) ==
  IF UserPatchRoute(path) = ":id"
  THEN IF AdminGate(tok) = 401 THEN Answer(401, "Unauthorized")
       ELSE IF AdminGate(tok) = 403 THEN Answer(403, "Admin access required")
       ELSE IF path \notin Users
       THEN \* findById('me'): CastError, caught by the handler
            Answer(500, "Failed to update user")
       ELSE Answer(200, "profile")
  ELSE IF AuthUser(tok) = None THEN Answer(401, "Unauthorized")
       ELSE Answer(200, "profile")

\* PATCH /api/users/<path> with body {name: NewName}
UserPatch(tok, path) ==
  /\ serverUp
  /\ UNCHANGED <<storeVars, an, reading, io>>
  /\ accounts' = IF UserPatchTarget(tok, path) = None
                 THEN accounts
                 ELSE [accounts EXCEPT !.name[UserPatchTarget(tok, path)] = NewName]
  /\ http' = ResponseTo(tok, "patchUser", [NoQuery EXCEPT !.userId = path],
                        UserPatchResponse(tok, path))

\* --------------------------------- POST /api/auth/signup and POST /api/users
CreateRoutes == {"signup", "create"}

InUse(email) == CopiesIn(email, accounts.created) > 0

\* the route up to the findOne: the admin route is gated, signup is open
CreateCheckResponse(route, tok, email) ==
  IF route = "create" /\ AdminGate(tok) = 401 THEN Answer(401, "Unauthorized")
  ELSE IF route = "create" /\ AdminGate(tok) = 403 THEN Answer(403, "Admin access required")
  ELSE IF InUse(email) THEN Answer(409, "Email already in use")
  ELSE Answer(0, None)

\* const existing = await MarkerUser.findOne({ email }): the request goes on
\* to the create when the collection holds no user with the email
CreateCheck(route, tok, email) ==
  /\ serverUp
  /\ BagCardinality(accounts.pending) + BagCardinality(accounts.created) < MaxSignups
  /\ UNCHANGED <<storeVars, an, reading, io>>
  /\ LET r == CreateCheckResponse(route, tok, email) IN
     IF r.code = 0
     THEN /\ accounts' = [accounts EXCEPT !.pending =
                            @ (+) SetToBag({[route |-> route, caller |-> tok, email |-> email]})]
          /\ UNCHANGED http
     ELSE /\ UNCHANGED accounts
          /\ http' = ResponseTo(tok, route, [NoQuery EXCEPT !.userId = email], r)

\* the response after MarkerUser.create: a duplicate key error goes to
\* errorHandler from signup and to the catch block of the admin route
CreateInsertResponse(p) ==
  IF accounts.unique /\ InUse(p.email)
  THEN IF p.route = "signup"
       THEN Answer(409, "Duplicate entry")
       ELSE Answer(500, "Failed to create user")
  ELSE IF p.route = "signup" THEN Answer(200, "token") ELSE Answer(201, "user")

\* await MarkerUser.create({ email, ... }) and the response
CreateInsert(p) ==
  /\ serverUp
  /\ CopiesIn(p, accounts.pending) > 0
  /\ UNCHANGED <<storeVars, an, reading, io>>
  /\ accounts' = [accounts EXCEPT
                    !.pending = @ (-) SetToBag({p}),
                    !.created = IF accounts.unique /\ InUse(p.email)
                                THEN @
                                ELSE @ (+) SetToBag({p.email})]
  /\ http' = ResponseTo(p.caller, p.route, [NoQuery EXCEPT !.userId = p.email],
                        CreateInsertResponse(p))

\* ------------------------------------------------- openaiService.analyzeCode
ProjectTypes == {"c", "express"}
\* fileGlobs as the grade request carries it: absent, a list of patterns, a
\* value that is no list, a list holding a value that is no pattern
FileGlobInputs == {"absent", "patterns", "notIterable", "badPattern"}
\* testResult: a plain object, or one JSON.stringify refuses
TestResultInputs == {"plain", "unserializable"}

routeVars ==
  <<db, removed, doc, task, cont, calls, acked, patchReq, patched, adminOps, serverUp, io, http,
    accounts, reading>>

\* const files = await readRepoFiles(repoPath, fileGlobs || DEFAULT_FILE_GLOBS)
AnalyzeReadFiles ==
  /\ an.pc = "start"
  /\ an' = IF an.fileGlobs \in {"notIterable", "badPattern"}
           THEN [an EXCEPT !.pc = "done", !.result = RejectedResult]
           ELSE [an EXCEPT !.pc = "prompt"]
  /\ UNCHANGED routeVars

\* const prompt = buildPrompt(files, testResult, rubric, npmRegistryData, projectType)
AnalyzeBuildPrompt ==
  /\ an.pc = "prompt"
  /\ an' = IF an.testResult = "unserializable"
           THEN [an EXCEPT !.pc = "done", !.result = RejectedResult]
           ELSE [an EXCEPT !.pc = "call"]
  /\ UNCHANGED routeVars

\* await openai.chat.completions.create(...) and response.choices[0].message.content
ServiceOutcomes == {"error", "noChoices", "nullContent", "text"}

\* an adapter that calls the service a second time after a failed call
AnalyzeCallService_Retry(out, text) ==
  /\ an.pc = "call"
  /\ out = "text" \/ text = <<>>
  /\ an' = IF out = "error" /\ an.apiCalls = 0
           THEN [an EXCEPT !.apiCalls = @ + 1, !.service = out]
           ELSE IF out \in {"error", "noChoices"}
           THEN [an EXCEPT !.pc = "done", !.apiCalls = @ + 1, !.service = out,
                           !.result = DegradedResult(an.projectType)]
           ELSE [an EXCEPT !.pc = "parse", !.apiCalls = @ + 1, !.service = out,
                           !.content = text]
  /\ UNCHANGED routeVars

AnalyzeCallService(out, text) ==
  /\ an.pc = "call"
  /\ out = "text" \/ text = <<>>
  /\ an' = IF out \in {"error", "noChoices"}
           THEN [an EXCEPT !.pc = "done", !.apiCalls = @ + 1, !.service = out,
                           !.result = DegradedResult(an.projectType)]
           ELSE [an EXCEPT !.pc = "parse", !.apiCalls = @ + 1, !.service = out,
                           !.content = text]
  /\ UNCHANGED routeVars

\* safeJsonParse(content) and the return statements; a TypeError lands in catch
AnalyzeParse ==
  /\ an.pc = "parse"
  /\ LET analysis == IF an.service = "nullContent"
                     THEN [ok |-> TRUE, val |-> Null, obj |-> EmptyObject]
                     ELSE safeJsonParse(an.content)
     IN an' = [an EXCEPT !.pc = "done", !.analysis = analysis,
                         !.result = IF Throws(analysis)
                                    THEN DegradedResult(an.projectType)
                                    ELSE AnalysisResult(an.projectType, analysis)]
  /\ UNCHANGED routeVars

\* completions of the analysis service
Opt(key, v) == IF v = Undefined THEN <<>> ELSE <<Member(key, v)>>
Objects ==
  { <<LB>> \o Opt("score", s) \o Opt("codeQualityScore", q) \o Opt("codeSmellScore", m)
         \o Opt("report", r) \o <<RB>> :
      s \in {Undefined, Num(85), Str(1)}, q \in {Undefined, Num(70), Str(1)},
      m \in {Undefined, Num(60)}, r \in {Undefined, Str(2)} }
Junk == {<<>>, <<Txt>>, <<LB, Txt, RB>>}
\* the object the web-stack prompt demands:
\* { "codeQualityScore": number, "testScore": number, "report": "..." }
PromptFormat(q) ==
  <<LB, Member("codeQualityScore", q), Member("testScore", Num(80)), Member("report", Str(2)), RB>>
Contents ==
  {pre \o o \o post : pre \in Junk, o \in Objects, post \in Junk}
    \cup {<<>>, <<Txt>>, <<LB, Txt>>, <<Literal(Num(85))>>, <<Literal(Null)>>}
    \cup {PromptFormat(Num(70))}

InitAnalyze ==
  /\ an \in {[AnIdle EXCEPT !.pc = "start", !.projectType = pt, !.fileGlobs = fg, !.testResult = tr] :
               pt \in ProjectTypes, fg \in FileGlobInputs, tr \in TestResultInputs}
  /\ db = <<>> /\ removed = {} /\ doc = <<>> /\ task = <<>> /\ cont = <<>> /\ calls = <<>>
  /\ acked = {} /\ patchReq = NoPatch /\ patched = {} /\ adminOps = 0 /\ serverUp = TRUE
  /\ io = IoInit /\ http = NoResponse /\ accounts = AccountsInit /\ reading = NotReading

CallService == \E out \in ServiceOutcomes, text \in Contents : AnalyzeCallService(out, text)

NextAnalyze ==
  \/ AnalyzeReadFiles
  \/ AnalyzeBuildPrompt
  \/ CallService
  \/ AnalyzeParse

SpecAnalyze == InitAnalyze /\ [][NextAnalyze]_vars

\* ---------------------------------------------------------- specifications
\* the grade requests: no token, a bad token, a token of a deleted user, a
\* student's token
Submitters == Tokens \ {"root"}
Grade == \E tok \in Submitters, ok \in BOOLEAN : PostGrade(tok, ok, MaxSubs)
GradeMany == \E tok \in Submitters, ok \in BOOLEAN : PostGrade(tok, ok, MaxPipelineSubs)
\* the pipeline with a publisher that does not raise
Advance == \E s \in Ids, ok \in BOOLEAN : PhaseAdvanceStep(s, ok, TRUE)
Fail == \E s \in Ids, e \in PhaseErrors : PhaseFailStep(s, e, TRUE)
Resolve == \E s \in Ids, r \in GradingResults : PipelineResolveStep(s, r, TRUE)
Then == \E s \in Ids, ok \in BOOLEAN : ThenContinuation(s, ok)
Catch == \E s \in Ids, ok \in BOOLEAN : CatchContinuation(s, ok)
Patch ==
  \E tok \in Tokens, s \in 1..MaxSubs, body \in PatchBodies : PatchLoad(tok, s, body)
PatchWrite == \E ok \in BOOLEAN : PatchSave(ok)
Delete == \E tok \in Tokens, s \in 1..MaxSubs, ok \in BOOLEAN : DeleteSubmission(tok, s, ok)

PipelineSteps ==
  \/ Advance
  \/ Fail
  \/ Resolve
  \/ Then
  \/ Catch
  \/ UnhandledRejection

NextPipeline ==
  \/ GradeMany
  \/ PipelineSteps

Next ==
  \/ Grade
  \/ PipelineSteps
  \/ Patch
  \/ PatchWrite
  \/ Delete

Spec == Init /\ [][Next]_vars

\* The routes without the administrative operations.
SpecPipeline == Init /\ [][NextPipeline]_vars

\* A burst of grade requests of one user: the route with its pipeline settling.
GradeBurst == \E ok \in BOOLEAN : PostGrade("alice", ok, MaxConcurrentJobs + 1)

NextAdmission ==
  \/ GradeBurst
  \/ Fail

SpecAdmission == Init /\ [][NextAdmission]_vars

\* The event loop runs every settled promise's continuation, and the grading
\* task is taken to settle.
Settle(s) ==
  /\ s \in Ids
  /\ \/ \E ok \in BOOLEAN : PhaseAdvanceStep(s, ok, TRUE)
     \/ \E e \in PhaseErrors : PhaseFailStep(s, e, TRUE)
     \/ \E r \in GradingResults : PipelineResolveStep(s, r, TRUE)

Continue(s) ==
  /\ s \in Ids
  /\ \/ \E ok \in BOOLEAN : ThenContinuation(s, ok)
     \/ \E ok \in BOOLEAN : CatchContinuation(s, ok)

\* the requests that get past the middleware
GradeAuthorized == \E ok \in BOOLEAN : PostGrade("alice", ok, MaxSubs)
PatchAuthorized == \E s \in 1..MaxSubs, body \in PatchBodies : PatchLoad("root", s, body)
DeleteAuthorized == \E s \in 1..MaxSubs, ok \in BOOLEAN : DeleteSubmission("root", s, ok)

NextAuthorized ==
  \/ GradeAuthorized
  \/ PipelineSteps
  \/ PatchAuthorized
  \/ PatchWrite
  \/ DeleteAuthorized

FairSpec ==
  /\ Init
  /\ [][NextAuthorized]_vars
  /\ \A s \in 1..MaxSubs : WF_vars(Settle(s) \/ Continue(s))
  /\ WF_vars(UnhandledRejection)

\* The grade route and its pipeline with a publisher that may raise.
AdvancePublish == \E s \in Ids, ok \in BOOLEAN, pub \in BOOLEAN : PhaseAdvanceStep(s, ok, pub)
FailPublish == \E s \in Ids, e \in PhaseErrors, pub \in BOOLEAN : PhaseFailStep(s, e, pub)
ResolvePublish ==
  \E s \in Ids, r \in GradingResults, pub \in BOOLEAN : PipelineResolveStep(s, r, pub)

NextPublish ==
  \/ GradeAuthorized
  \/ AdvancePublish
  \/ FailPublish
  \/ ResolvePublish
  \/ Then
  \/ Catch
  \/ UnhandledRejection

SpecPublish == Init /\ [][NextPublish]_vars

\* The socket server under any caller of the emit functions.
Connect == \E c \in Conns : Connection(c)
Subscribe == \E c \in Conns, x \in RoomIds : SubmissionStart(c, x)
Leave == \E c \in Conns : Disconnect(c)

Emitted(next) ==
  /\ serverUp
  /\ BagCardinality(io.log) < MaxEmits
  /\ io' = next
  /\ UNCHANGED <<storeVars, an, accounts, reading, http>>

EmitProgress == \E x \in RoomIds : Emitted(emitSubmissionProgress(ProgressEvent(x, "testing")))
EmitComplete ==
  \E x \in RoomIds, r \in GradingResults : Emitted(emitSubmissionComplete(CompleteEvent(x, r)))
EmitError ==
  \E x \in RoomIds, e \in PhaseErrors : Emitted(emitSubmissionError(ErrorEvent(x, e, "testing")))

NextSocket ==
  \/ Connect
  \/ Subscribe
  \/ Leave
  \/ EmitProgress
  \/ EmitComplete
  \/ EmitError

SpecSocket == Init /\ [][NextSocket]_vars

\* The grade route, the deletion and the report download of any id.
Report == \E rid \in 0..MaxSubs, ok \in BOOLEAN : GetReport(rid, ok)

NextRead ==
  \/ GradeAuthorized
  \/ PipelineSteps
  \/ DeleteAuthorized
  \/ Report

SpecRead == Init /\ [][NextRead]_vars

\* The grade route, the admin PATCH and repeated downloads of stored reports.
Reread == \E rid \in 1..MaxSubs : GetReport(rid, TRUE)

NextReread ==
  \/ GradeAuthorized
  \/ PipelineSteps
  \/ PatchAuthorized
  \/ PatchWrite
  \/ Reread

SpecReread == Init /\ [][NextReread]_vars

\* The grade route of both users, runs that fail, and the listing.
GradeOwners == \E tok \in Users, ok \in BOOLEAN : PostGrade(tok, ok, MaxPipelineSubs)
Listing == \E q \in ListQueries, ok \in BOOLEAN : ListSubmissions(q, ok)

NextList ==
  \/ GradeOwners
  \/ Fail
  \/ Catch
  \/ UnhandledRejection
  \/ Listing

SpecList == Init /\ [][NextList]_vars

\* The grade route under every Authorization header, with its responses, and
\* runs that fail.
Intake == \E tok \in Tokens, ok \in BOOLEAN : GradeRequest(tok, ok, MaxPipelineSubs)

NextIntake ==
  \/ Intake
  \/ Fail
  \/ Catch
  \/ UnhandledRejection

SpecIntake == Init /\ [][NextIntake]_vars

\* The grade route, runs that fail, and PATCH and DELETE under every
\* Authorization header, with their responses.
PatchRequests ==
  \E tok \in Tokens, s \in 1..MaxSubs, body \in PatchBodies : PatchRequest(tok, s, body)
DeleteRequests ==
  \E tok \in Tokens, s \in 1..MaxSubs, ok \in BOOLEAN : DeleteRequest(tok, s, ok)

NextAdmin ==
  \/ GradeAuthorized
  \/ Fail
  \/ Catch
  \/ UnhandledRejection
  \/ PatchRequests
  \/ PatchWrite
  \/ DeleteRequests

SpecAdmin == Init /\ [][NextAdmin]_vars

\* The grade route with its pipeline, and the three read routes under every
\* Authorization header.
ReadReports == \E tok \in Tokens, rid \in 0..MaxSubs, ok \in BOOLEAN : ReportRead(tok, rid, ok)
ReadSubmissions ==
  \E tok \in Tokens, rid \in 0..MaxSubs, ok \in BOOLEAN : SubmissionRead(tok, rid, ok)
ReadLists ==
  \E tok \in Tokens, q \in {NoQuery, [NoQuery EXCEPT !.userId = "alice"]}, ok \in BOOLEAN :
    ListRead(tok, q, ok)

NextAccess ==
  \/ GradeAuthorized
  \/ PipelineSteps
  \/ ReadReports
  \/ ReadSubmissions
  \/ ReadLists

SpecAccess == Init /\ [][NextAccess]_vars

\* The user routes and the signup under every Authorization header; the
\* collection with and without a unique index on email.
InitUsers ==
  /\ an = AnIdle
  /\ db = <<>> /\ removed = {} /\ doc = <<>> /\ task = <<>> /\ cont = <<>> /\ calls = <<>>
  /\ acked = {} /\ patchReq = NoPatch /\ patched = {} /\ adminOps = 0 /\ serverUp = TRUE
  /\ io = IoInit /\ http = NoResponse
  /\ accounts \in {[AccountsInit EXCEPT !.unique = u] : u \in BOOLEAN}
  /\ reading = NotReading

PatchUsers == \E tok \in Tokens, path \in UserPaths : UserPatch(tok, path)
CreateChecks ==
  \E route \in CreateRoutes, tok \in Tokens, email \in Emails : CreateCheck(route, tok, email)
CreateInserts == \E p \in BagToSet(accounts.pending) : CreateInsert(p)

NextUsers ==
  \/ PatchUsers
  \/ CreateChecks
  \/ CreateInserts

SpecUsers == InitUsers /\ [][NextUsers]_vars

\* readRepoFiles over repositories of two files, one of them of every content,
\* and every list of patterns.
InitReading ==
  /\ an = AnIdle
  /\ db = <<>> /\ removed = {} /\ doc = <<>> /\ task = <<>> /\ cont = <<>> /\ calls = <<>>
  /\ acked = {} /\ patchReq = NoPatch /\ patched = {} /\ adminOps = 0 /\ serverUp = TRUE
  /\ io = IoInit /\ http = NoResponse /\ accounts = AccountsInit
  /\ \E readme \in {<<[c |-> "text", n |-> 1]>>, Unreadable},
        source \in SeqsUpTo(Runs, MaxRuns),
        globs \in SeqsUpTo(Patterns, MaxGlobs) :
       reading = [pc |-> "glob",
                  repo |-> [f \in {"README.md", "src/a.js"} |->
                              IF f = "README.md" THEN readme ELSE source],
                  fileGlobs |-> globs, globs |-> globs, matched |-> <<>>, out |-> <<>>]

NextReading ==
  \/ ReadGlob
  \/ ReadFile

SpecReading == InitReading /\ [][NextReading]_vars

\* ------------------------------------------------------------------ claims
StepOK(a, b) ==
  /\ a \notin Terminal
  /\ \/ b = "failed"
     \/ StatusIndex(b) = StatusIndex(a) + 1

C2_GradeMatchesStatus ==
  \A s \in Ids :
    /\ db[s].status # "completed" => db[s].grade = "pending"
    /\ db[s].status = "completed" => db[s].grade \in {"pass", "fail"}

\* C3: the number of pipeline runs in flight (gradeSubmission started and not
\* settled) never exceeds the admission limit.
InFlight == Cardinality({s \in Ids : task[s].pc = "running"})

C3_AdmissionLimit == InFlight <= MaxConcurrentJobs

C5_AckedOnceSaved == \A s \in Ids : s \in acked

C5_Witness ==
  \E s \in acked : task[s].pc = "rejected" /\ cont[s] = "waiting" /\ db[s].status = "testing"

C7_FailedHasNoScores ==
  \A s \in Ids :
    /\ (db[s].scores # None \/ db[s].report # None) => task[s].pc = "resolved"
    /\ db[s].status = "failed" => (db[s].scores = None /\ db[s].report = None)

C9_SaveFailureNotConverted ==
  \A s \in Ids :
    task[s].pc = "resolved" => ~(db[s].status = "failed" /\ db[s].error # None)

\* C10: analyzeCode never rejects; a failure inside the adapter (collecting the
\* files, building the prompt, the service call, an unusable response) yields
\* a returned result with zero scores and a report noting the failure.
AdapterFailed ==
  \/ an.fileGlobs \in {"notIterable", "badPattern"}
  \/ an.testResult = "unserializable"
  \/ an.service \in {"error", "noChoices", "nullContent"}
  \/ an.service = "text" /\ ~JsonParse(an.content).ok /\ ~JsonParse(BraceMatch(an.content)).ok

ZeroScores(r, projectType) ==
  IF projectType = "c"
  THEN r.codeQualityScore = Num(0) /\ r.codeSmellScore = Num(0)
  ELSE r.score = Num(0)

C10_AnalyzeNeverRejects ==
  an.pc = "done" =>
    /\ an.result.kind = "returned"
    /\ AdapterFailed =>
         /\ ZeroScores(an.result, an.projectType)
         /\ an.result.report \in {AnalysisFailed, NoAnalysisProvided}

\* C11: for every response of the analysis service, analyzeCode returns, every
\* score field it returns is a number, and the field is 0 whenever the field
\* of the response is missing or not a number.
ResponseField(key) ==
  IF an.service = "text" THEN Get(an.analysis, key) ELSE Undefined

ScoreFromResponse(returned, key) ==
  /\ returned.t = "number"
  /\ ResponseField(key).t # "number" => returned = Num(0)

C11_ScoresAreNumbers ==
  (an.pc = "done" /\ an.service # None) =>
    /\ an.result.kind = "returned"
    /\ IF an.projectType = "c"
       THEN /\ ScoreFromResponse(an.result.codeQualityScore, "codeQualityScore")
            /\ ScoreFromResponse(an.result.codeSmellScore, "codeSmellScore")
       ELSE ScoreFromResponse(an.result.score, "score")

\* C12: for a text made of one JSON object between extraneous texts, which
\* may hold braces themselves, safeJsonParse returns the decoding of that
\* object; it returns the empty object only when the text holds no decodable
\* object.
EmptyAnalysis == [ok |-> TRUE, val |-> [t |-> "object", n |-> 0], obj |-> EmptyObject]

Embedded(content) ==
  {o \in Objects : \E pre \in Junk, post \in Junk : content = pre \o o \o post}

C12_ExtractsEmbeddedObject ==
  (an.pc = "done" /\ an.service = "text") =>
    /\ \A o \in Embedded(an.content) : an.analysis = JsonParse(o)
    /\ an.analysis = EmptyAnalysis =>
         \A o \in Embedded(an.content) : JsonParse(o) = EmptyAnalysis

\* C13: one call of analyzeCode invokes the analysis service at most once, on
\* the failure path too.
C13_AtMostOneServiceCall == an.apiCalls <= 1

C13_Witness == an.pc = "done" /\ an.service = "error" /\ an.apiCalls = 1

\* C14: while a pipeline run of a submission is in flight (after intake, before
\* its terminal write), only that run's own saves change the record: no PATCH
\* changes it, no DELETE removes it, and the terminal write of the run
\* overwrites no status written by a PATCH.
InFlightRun(s) == s \in acked /\ cont[s] \in {"waiting", "thenRejected"}

OwnSave(s) ==
  \E ok \in BOOLEAN :
    \/ PhaseAdvance(s, ok)
    \/ ThenContinuation(s, ok)
    \/ CatchContinuation(s, ok)

C14_ExclusiveOwnership ==
  [][\A s \in Ids : InFlightRun(s) =>
       /\ db'[s] # db[s] => OwnSave(s)
       /\ s \in removed' <=> s \in removed
       /\ (cont'[s] = "done" /\ db'[s] # db[s]) => s \notin patched]_vars

\* C15: an event emitted for submission X is delivered only to connections
\* that are open and have sent submission:start for X (are in the room of X);
\* a connection not in that room receives no event of X.
C15_DeliveredToSubscribersOnly ==
  [][\A c \in Conns : \A e \in io'.received[c] \ io.received[c] :
       /\ io.conn[c] = "open"
       /\ Room(EventSubject(e)) \in io.rooms[c]]_vars

C15_Witness ==
  \E e \in BagToSet(io.log) :
    /\ e \in io.received["c1"]
    /\ io.conn["c2"] = "open" /\ io.rooms["c2"] # {} /\ e \notin io.received["c2"]

\* C16 (as stated): for every stored submission whose persisted status is
\* completed, exactly one completion event has been published, and the
\* submission it carries is the persisted record: status completed with its
\* grade, scores and report.
CompletionEvents(s) ==
  {e \in BagToSet(io.log) : e.type = "complete" /\ e.submission.id = s}

Persisted(s) ==
  [id |-> s, status |-> db[s].status, grade |-> db[s].grade,
   scores |-> db[s].scores, report |-> db[s].report]

OneCompletionEvent(s) ==
  \E e \in CompletionEvents(s) :
    /\ CompletionEvents(s) = {e}
    /\ CopiesIn(e, io.log) = 1
    /\ e.submission = Persisted(s)

StoreStep ==
  \/ GradeAuthorized
  \/ \E s \in Ids :
       \/ \E ok \in BOOLEAN : PhaseAdvance(s, ok)
       \/ \E e \in PhaseErrors : PhaseFail(s, e)
       \/ \E r \in GradingResults : PipelineResolve(s, r)
  \/ Then
  \/ Catch
  \/ UnhandledRejection

NoReport(rid) == rid \notin Live \/ db[rid].report = None

C18_ReportOrNotFound ==
  [][(http' # http /\ http'.route = "report") =>
       /\ http'.code = 404 <=> NoReport(http'.query.id)
       /\ ~NoReport(http'.query.id) =>
            /\ http'.code = 200
            /\ http'.body = db[http'.query.id].report]_vars

\* C18 (amended): for a well-formed id and a store that answers the read, the
\* route answers 200 with the stored report, or 404 exactly when no
\* submission with that id is stored or the submission has no report; a
\* malformed id is answered 400 and a failed read 500.
C18_ReportOrNotFoundWhenReadable ==
  \A rid \in 0..MaxSubs, ok \in BOOLEAN :
    LET r == ReportResponse(rid, ok)
        readable == rid # MalformedId /\ ok
    IN /\ r.code = 404 <=> (readable /\ NoReport(rid))
       /\ r.code = 200 <=> (readable /\ ~NoReport(rid))
       /\ r.code = 200 => r.body = db[rid].report
       /\ r.code = 400 <=> rid = MalformedId
       /\ r.code \in {200, 400, 404, 500}

C18_Witness ==
  /\ http.route = "report" /\ http.code = 404
  /\ http.query.id \in removed /\ db[http.query.id].report # None

\* C19: once a stored submission is completed and has a report, no step
\* changes the report; a download changes no record; and a download of a
\* completed submission that follows a download of the same submission
\* returns the same content.
C19_SameReportTwice ==
  [][/\ \A s \in Ids :
          (db[s].status = "completed" /\ db[s].report # None) => db'[s].report = db[s].report
     /\ http' # http => (db' = db /\ removed' = removed)
     /\ (http' # http /\ http'.again /\ http'.code = 200
           /\ db[http'.query.id].status = "completed") => http'.body = http.body]_vars

C19_Witness ==
  /\ http.route = "report" /\ http.again /\ http.code = 200
  /\ http.query.id \in patched
  /\ db[http.query.id].status = "completed" /\ http.body = db[http.query.id].report

\* C20: GET / answers with exactly the stored submissions that match every
\* filter of the query, newest first, without the first skip entries and with
\* at most limit entries (skip 0 and limit 50 when the query names none), and
\* changes no record.
Take(seq, n) == SubSeq(seq, 1, Min({n, Len(seq)}))

ExpectedPage(q) ==
  Take(Skip(NewestFirst(Matching(q)), IF q.skip = Unset THEN 0 ELSE q.skip),
       IF q.limit = Unset THEN 50 ELSE q.limit)

C20_ListIsFilteredPage ==
  [][(http' # http /\ http'.route = "list" /\ http'.code = 200) =>
       /\ Len(http'.items) = Len(ExpectedPage(http'.query))
       /\ \A i \in 1..Len(http'.items) :
            /\ http'.items[i].id = ExpectedPage(http'.query)[i]
            /\ http'.items[i] = Listed(http'.items[i].id)
       /\ db' = db /\ removed' = removed]_vars

\* C21: a submission record is created and gradeSubmission called only by a
\* grade request whose token verifies and resolves to a stored user, the
\* record's owner being that user; a request with a missing token, an invalid
\* token or the token of an unknown user is answered 401, creates no record
\* and starts no run.
C21_IntakeOnlyForVerifiedUser ==
  [][/\ \A s \in DOMAIN db' \ DOMAIN db :
          /\ http'.route = "grade" /\ http'.code = 202
          /\ http'.caller \in Users
          /\ db'[s].userId = http'.caller
          /\ calls'[s] = 1
     /\ calls' # calls => DOMAIN db' # DOMAIN db
     /\ (http' # http /\ http'.route = "grade" /\ http'.caller \notin Users) =>
          /\ http'.code = 401
          /\ db' = db /\ calls' = calls /\ task' = task]_vars

C21_Witness ==
  /\ http.route = "grade" /\ http.code = 401 /\ http.caller = "ghost"
  /\ \E s \in Ids : db[s].userId = "alice" /\ calls[s] = 1 /\ s \in acked

\* C22: a record is removed only by a DELETE of an authenticated admin, and a
\* PATCH gets to write a record only when an authenticated admin sent it; a
\* PATCH or DELETE of another caller is answered 401 (not authenticated) or
\* 403 (no admin) and changes nothing; no step of the pipeline removes a
\* record.
AdminToken(tok) == tok \in Users /\ UserRole[tok] = "admin"

C22_AdminOnlyWrites ==
  [][/\ removed' # removed =>
          /\ http'.route = "delete" /\ http'.code = 200 /\ AdminToken(http'.caller)
          /\ removed' = removed \cup {http'.query.id}
     /\ (patchReq' # patchReq /\ patchReq' # NoPatch) =>
          /\ http'.route = "patch" /\ AdminToken(http'.caller)
          /\ patchReq'.sid = http'.query.id
     /\ patched' # patched => patchReq # NoPatch
     /\ (http' # http /\ http'.route \in {"patch", "delete"} /\ ~AdminToken(http'.caller)) =>
          /\ http'.code = IF http'.caller \in Users THEN 403 ELSE 401
          /\ db' = db /\ removed' = removed /\ patchReq' = patchReq]_vars

C22_Witness ==
  /\ http.route = "delete" /\ http.code = 403 /\ http.caller = "alice"
  /\ http.query.id \in Live /\ http.query.id \in patched

\* C23: a read route (the listing, get by id, the report download) answers
\* with a submission's record or report only when the caller is authenticated
\* as the submission's owner or as an instructor or admin.
Revealed(r) ==
  IF r.route = "list" THEN {r.items[i].id : i \in 1..Len(r.items)} ELSE {r.query.id}

MayRead(tok, s) ==
  /\ tok \in Users
  /\ db[s].userId = tok \/ UserRole[tok] \in {"instructor", "admin"}

C23_ReadsOnlyByOwnerOrStaff ==
  [][(http' # http /\ http'.route \in {"list", "get", "report"} /\ http'.code = 200) =>
       \A s \in Revealed(http') : MayRead(http'.caller, s)]_vars

\* C24: PATCH /api/users/me of every authenticated user, whatever the role, is
\* answered by the own-profile handler: the response is 200 and the name of
\* the caller's own profile, and no other, is the name of the request.
C24_OwnProfileReached ==
  [][(/\ http' # http /\ http'.route = "patchUser"
      /\ http'.query.userId = "me" /\ http'.caller \in Users) =>
       /\ http'.code = 200
       /\ accounts'.name = [accounts.name EXCEPT ![http'.caller] = NewName]]_vars

\* C30: after every interleaving of account-creation requests at most one
\* user exists per email, and every signup or authorized admin creation that
\* is answered while its email is in use is answered 409 and creates no user.
CreationAllowed(r) == r.route = "signup" \/ (r.caller \in Users /\ UserRole[r.caller] = "admin")

C30_OneUserPerEmail ==
  [][/\ \A e \in Emails : CopiesIn(e, accounts'.created) <= 1
     /\ (/\ http' # http /\ http'.route \in CreateRoutes
         /\ CreationAllowed(http') /\ InUse(http'.query.userId)) =>
          /\ http'.code = 409
          /\ accounts'.created = accounts.created]_vars

\* C25: for a project type other than c, when the completion is the object the
\* prompt demands, with a numeric codeQualityScore q, the quality score
\* analyzeCode returns is q.
C25_PromptFormatScoreReturned ==
  \A q \in {Num(70)} :
    (an.pc = "done" /\ an.projectType # "c" /\ an.service = "text"
       /\ an.content = PromptFormat(q)) =>
      /\ an.result.kind = "returned"
      /\ an.result.score = q

\* C26: for project type c each score is taken by itself: a numeric field of
\* the response is returned unchanged, in the result and in its breakdown
\* entry, and a missing or non-numeric one is returned as 0.
FieldByField(returned, entry, key) ==
  LET v == Get(an.analysis, key)
      expected == IF v.t = "number" THEN v ELSE Num(0)
  IN returned = expected /\ entry.score = expected

C26_CoercionFieldByField ==
  (an.pc = "done" /\ an.projectType = "c" /\ an.service = "text"
     /\ an.analysis.val.t = "object") =>
    /\ an.result.kind = "returned"
    /\ FieldByField(an.result.codeQualityScore, an.result.breakdown[1], "codeQualityScore")
    /\ FieldByField(an.result.codeSmellScore, an.result.breakdown[2], "codeSmellScore")

\* C27: readRepoFiles includes every matched file that can be read once, with
\* at most 10000 characters, which are the first characters of the file's
\* sanitized content and hold no control character other than line feed; the
\* truncation marker follows exactly when the sanitized content is longer
\* than 10000 characters.
Clean(content) == SelectSeq(content, LAMBDA r : r.c \in {"text", "lf"})

MatchedFiles(globs) ==
  {f \in {"README.md", "src/a.js"} :
     \E i \in 1..Len(globs) : InSeq(f, GlobMatches(globs[i]))}

C27_CappedSanitizedOnce ==
  reading.pc = "done" =>
    /\ \A i \in 1..Len(reading.out) :
         LET e == reading.out[i]
             clean == Clean(reading.repo[e.file])
         IN /\ Length(e.text) <= 10000
            /\ \A j \in 1..Len(e.text) : e.text[j].c # "ctl"
            /\ e.text = Slice(clean, Length(e.text))
            /\ e.truncated <=> Length(clean) > 10000
            /\ ~e.truncated => e.text = clean
            /\ e.truncated => Length(e.text) = 10000
    /\ \A i, j \in 1..Len(reading.out) : reading.out[i].file = reading.out[j].file => i = j
    /\ {reading.out[i].file : i \in 1..Len(reading.out)}
         = {f \in MatchedFiles(reading.fileGlobs) : reading.repo[f] # Unreadable}

C27_Witness ==
  /\ reading.pc = "done"
  /\ Len(reading.fileGlobs) = 2
  /\ \A i \in 1..2 : InSeq("src/a.js", GlobMatches(reading.fileGlobs[i]))
  /\ Len(reading.out) = 2
  /\ \E i \in 1..2 :
       /\ reading.out[i].file = "src/a.js" /\ reading.out[i].truncated
       /\ \E j \in 1..Len(reading.repo["src/a.js"]) : reading.repo["src/a.js"][j].c = "ctl"

\* C28: a step that calls gradeSubmission for a submission stores, in the same
\* request and before the call, the submission's record with status uploading
\* and grade pending and with no scores, report or error, and acknowledges it;
\* a request whose initial save fails is answered 500, not 202, and starts no
\* run, stores no record and acknowledges nothing.
Fresh(rec) ==
  /\ rec.status = "uploading" /\ rec.grade = "pending"
  /\ rec.scores = None /\ rec.report = None /\ rec.error = None

C28_RunOnlyAfterInitialSave ==
  [][/\ \A s \in DOMAIN calls' \ DOMAIN calls :
          /\ s \in DOMAIN db' \ DOMAIN db
          /\ Fresh(db'[s])
          /\ calls'[s] = 1 /\ task'[s].pc = "running"
          /\ http'.route = "grade" /\ http'.code = 202
     /\ \A s \in DOMAIN calls : calls'[s] = calls[s]
     /\ DOMAIN calls' = DOMAIN db'
     /\ (http' # http /\ http'.route = "grade" /\ http'.code # 202) =>
          /\ db' = db /\ calls' = calls /\ task' = task /\ acked' = acked
     /\ acked' # acked => DOMAIN calls' # DOMAIN calls]_vars

C28_Witness ==
  /\ http.route = "grade" /\ http.code = 500 /\ http.caller \in Users
  /\ Len(db) = 1 /\ calls[1] = 1 /\ 1 \in acked /\ db[1].status = "failed"

\* C29: failures are isolated per submission: whatever fails in the
\* continuation of one submission, the failing save of its completed or failed
\* state included, the server process stays up, so that the other submissions
\* in flight are not left short of completed or failed.
C29_FailuresIsolated ==
  \A s \in Ids :
    cont[s] = "unhandled" =>
      \/ serverUp
      \/ \A o \in Ids \ {s} : db[o].status \in Terminal

====
